---- MODULE Spec2Model ----
(***************************************************************************)
(* ollama2nix (cmd/ollama2nix/main.go): a one-shot generator that fetches  *)
(* a registry manifest and prints a Nix recipe.                            *)
(*                                                                         *)
(* Go strings are sequences of one-character strings, so that SplitN,      *)
(* TrimPrefix, hex decoding and base64 encoding are computed character by  *)
(* character.  A Go error is a sequence of strings: <<>> is nil, and       *)
(* fmt.Errorf("ctx: %w", e) is <<"ctx">> \o e.                             *)
(***************************************************************************)
EXTENDS Integers, Sequences, FiniteSets

VARIABLES
    flagRegistry,   \* *flagRegistry
    flagModel,      \* *flagModel
    pc,             \* position of the process in main/run
    model,          \* run: model
    version,        \* run: version
    manifestURL,    \* run: manifestURL
    netCalls,       \* number of HTTP requests issued
    body,           \* bytes the registry serves as the response body
    readPos,        \* number of body bytes consumed by Read so far
    bodyOpen,       \* resp.Body acquired and not yet closed
    closeCount,     \* number of resp.Body.Close() calls
    hashed,         \* bytes written to manifestHash (the TeeReader's writer)
    scan,           \* json.Decoder scanner state
    manifest,       \* manifest.Layers after Decode
    i,              \* loop index of the layer loop
    sb,             \* strings.Builder: the lines written so far
    hexHash,        \* argument of the last convertOllamaHashToNixHash call
    nixHash,        \* its first result
    convErr,        \* its second result
    stdout,         \* what was printed to standard output
    exitCode,       \* process exit status, -1 while running
    err             \* error returned by run

vars == <<flagRegistry, flagModel, pc, model, version, manifestURL, netCalls,
          body, readPos, bodyOpen, closeCount, hashed, scan, manifest, i, sb,
          hexHash, nixHash, convErr, stdout, exitCode, err>>

----------------------------------------------------------------------------
(* Bounds of the model.                                                    *)

\* longest response body, in lexical units
MaxBody == 4
\* most lexical units one Read of the body returns
MaxRead == 2
\* longest -model value of the identifier-parsing specification
MaxIdLen == 5
\* length of the repeated pattern the digest inputs are built from
PatLen == 2

\* a sha256 digest in hex, as in the manifests quoted in main.go
DigestHexLen == 64

----------------------------------------------------------------------------
(* String literals of main.go.                                             *)

Nil == <<>>
Sha256Colon == <<"s", "h", "a", "2", "5", "6", ":">>
Sha256Dash == <<"s", "h", "a", "2", "5", "6", "-">>
Latest == <<"l", "a", "t", "e", "s", "t">>
MistralNemo == <<"m", "i", "s", "t", "r", "a", "l", "-", "n", "e", "m", "o">>
DefaultRegistry ==
    <<"r", "e", "g", "i", "s", "t", "r", "y", ".",
      "o", "l", "l", "a", "m", "a", ".", "a", "i">>

SeqsUpTo(S, n) == UNION {[1..k -> S] : k \in 0..n}

RECURSIVE Flatten(_)
Flatten(ss) == IF ss = <<>> THEN <<>> ELSE Head(ss) \o Flatten(Tail(ss))

----------------------------------------------------------------------------
(* strings.SplitN(s, ":", 2) and the identifier parsing of run.            *)

\* strings.Index(s, ":") + 1, or 0 when s holds no colon
IndexColon(s) ==
    IF \E k \in 1..Len(s) : s[k] = ":"
    THEN CHOOSE k \in 1..Len(s) : s[k] = ":" /\ \A j \in 1..(k - 1) : s[j] # ":"
    ELSE 0

\* a plausible slip: splitting at the last colon
SplitAtLastColon(s) ==
    IF \E k \in 1..Len(s) : s[k] = ":"
    THEN LET k == CHOOSE k \in 1..Len(s) :
                      s[k] = ":" /\ \A j \in (k + 1)..Len(s) : s[j] # ":"
         IN <<SubSeq(s, 1, k - 1), SubSeq(s, k + 1, Len(s))>>
    ELSE <<s>>

SplitN2(s) ==
    LET k == IndexColon(s)
    IN IF k = 0 THEN <<s>>
       ELSE <<SubSeq(s, 1, k - 1), SubSeq(s, k + 1, Len(s))>>

ParseModel(s) ==
    LET modelVersion == SplitN2(s)
    IN [model |-> modelVersion[1],
        version |-> IF Len(modelVersion) > 1 THEN modelVersion[2] ELSE Latest]

----------------------------------------------------------------------------
(* url.PathEscape and the two URLs.  A URL is its scheme, host and the     *)
(* list of its path segments; PathEscape keeps a segment free of "/".      *)

\* bytes url.PathEscape percent-encodes, among the characters used here
EscapeTable ==
    [c \in {"/", ";", ",", "?"} |->
        CASE c = "/" -> <<"%", "2", "F">>
          [] c = ";" -> <<"%", "3", "B">>
          [] c = "," -> <<"%", "2", "C">>
          [] c = "?" -> <<"%", "3", "F">>]

PathEscape(s) ==
    Flatten([k \in 1..Len(s) |->
        IF s[k] \in DOMAIN EscapeTable THEN EscapeTable[s[k]] ELSE <<s[k]>>])

ManifestURL(registry, m, v) ==
    [Scheme |-> "https", Host |-> registry,
     Path |-> <<"v2", "library", PathEscape(m), "manifests", PathEscape(v)>>]

BlobURL(registry, m, digest) ==
    [Scheme |-> "https", Host |-> registry,
     Path |-> <<"v2", "library", MistralNemo, "blobs", PathEscape(digest)>>]

----------------------------------------------------------------------------
(* convertOllamaHashToNixHash: TrimPrefix, hex.DecodeString,               *)
(* base64.StdEncoding.EncodeToString.                                      *)

HasPrefix(s, p) == Len(s) >= Len(p) /\ SubSeq(s, 1, Len(p)) = p

\* a plausible slip: the prefix is never removed
TrimPrefixNoop(s, p) == s

TrimPrefix(s, p) ==
    IF HasPrefix(s, p) THEN SubSeq(s, Len(p) + 1, Len(s)) ELSE s

LowerHex == <<"0", "1", "2", "3", "4", "5", "6", "7", "8", "9",
              "a", "b", "c", "d", "e", "f">>
UpperHex == <<"A", "B", "C", "D", "E", "F">>

\* encoding/hex fromHexChar: the value of a hex digit, -1 for any other byte
FromHexChar(c) ==
    IF \E k \in 1..16 : LowerHex[k] = c
    THEN (CHOOSE k \in 1..16 : LowerHex[k] = c) - 1
    ELSE IF \E k \in 1..6 : UpperHex[k] = c
         THEN (CHOOSE k \in 1..6 : UpperHex[k] = c) + 9
         ELSE -1

\* hex.DecodeString: an invalid byte in a complete pair is reported first,
\* then an odd length (ErrLength, or InvalidByteError if the odd byte is bad)
HexDecode(s) ==
    LET n == Len(s) \div 2
        badPair == \E k \in 1..(2 * n) : FromHexChar(s[k]) = -1
    IN IF badPair
       THEN [bytes |-> <<>>, err |-> <<"InvalidByteError">>]
       ELSE IF Len(s) % 2 = 1
            THEN [bytes |-> <<>>,
                  err |-> IF FromHexChar(s[Len(s)]) = -1
                          THEN <<"InvalidByteError">> ELSE <<"ErrLength">>]
            ELSE [bytes |-> [k \in 1..n |->
                      16 * FromHexChar(s[2 * k - 1]) + FromHexChar(s[2 * k])],
                  err |-> Nil]

StdAlphabet ==
    <<"A", "B", "C", "D", "E", "F", "G", "H", "I", "J", "K", "L", "M",
      "N", "O", "P", "Q", "R", "S", "T", "U", "V", "W", "X", "Y", "Z",
      "a", "b", "c", "d", "e", "f", "g", "h", "i", "j", "k", "l", "m",
      "n", "o", "p", "q", "r", "s", "t", "u", "v", "w", "x", "y", "z",
      "0", "1", "2", "3", "4", "5", "6", "7", "8", "9", "+", "/">>

Pow64(e) == CASE e = 0 -> 1 [] e = 1 -> 64 [] e = 2 -> 4096 [] e = 3 -> 262144

\* base64.StdEncoding.EncodeToString: 3 bytes to 4 characters, "=" padding
Base64Encode(bs) ==
    LET n == Len(bs)
        byte(k) == IF k <= n THEN bs[k] ELSE 0
        char(j) ==
            LET g == (j - 1) \div 4
                p == (j - 1) % 4
                inGroup == IF n - 3 * g >= 3 THEN 3 ELSE n - 3 * g
                v == 65536 * byte(3 * g + 1) + 256 * byte(3 * g + 2)
                         + byte(3 * g + 3)
            IN IF p > inGroup THEN "="
               ELSE StdAlphabet[((v \div Pow64(3 - p)) % 64) + 1]
    IN [j \in 1..(4 * ((n + 2) \div 3)) |-> char(j)]

convertOllamaHashToNixHash(h) ==
    LET trimmed == TrimPrefix(h, Sha256Colon)
        dec == HexDecode(trimmed)
    IN IF dec.err # Nil
       THEN [nixHash |-> <<>>, err |-> dec.err]
       ELSE [nixHash |-> Sha256Dash \o Base64Encode(dec.bytes), err |-> Nil]

----------------------------------------------------------------------------
(* The response body and json.Decoder.  The body is a sequence of lexical  *)
(* units: "open" is the run of bytes {"layers":[ , "close" is ]} , "layer" *)
(* is one {"digest":"<d>"} object, "ws" is a whitespace byte and "bad" is  *)
(* a byte that is valid nowhere in JSON.  Reads split the body between     *)
(* units.                                                                  *)

Token(t, d) == [t |-> t, digest |-> d]

\* a well-formed digest, as the registry serves it
DigestGood ==
    Sha256Colon \o [k \in 1..DigestHexLen |-> LowerHex[((7 * k) % 16) + 1]]
\* a digest with a byte that is no hex digit
DigestNonHex ==
    Sha256Colon \o [k \in 1..DigestHexLen |->
                        IF k = 3 THEN "g" ELSE LowerHex[((7 * k) % 16) + 1]]
\* a hex digest of another (even) length
DigestShort == Sha256Colon \o <<"a", "b", "c", "d">>

LayerDigests == {DigestGood, DigestNonHex, DigestShort}

Tokens ==
    {Token("open", <<>>), Token("close", <<>>), Token("ws", <<>>),
     Token("bad", <<>>)}
        \cup {Token("layer", d) : d \in LayerDigests}

Bodies == SeqsUpTo(Tokens, MaxBody)

\* the scanner before the first byte: depth of open objects, whether the
\* top-level value has ended, whether a syntax error was met, and the Layer
\* values collected for manifest.Layers
ScanInit == [depth |-> 0, done |-> FALSE, bad |-> FALSE, layers |-> <<>>]

\* one unit through the scanner.  Nothing is scanned after the end of the
\* value (Decode returns at scanEndObject without looking at the next byte)
\* or after an error.  An object nested in the array is a Layer: unknown
\* members are ignored, an absent digest is the zero value "".
ScanStep(s, tok) ==
    IF s.done \/ s.bad THEN s
    ELSE CASE tok.t = "ws" -> s
           [] tok.t = "bad" -> [s EXCEPT !.bad = TRUE]
           [] tok.t = "open" -> [s EXCEPT !.depth = s.depth + 1]
           [] tok.t = "close" ->
                IF s.depth = 0 THEN [s EXCEPT !.bad = TRUE]
                ELSE IF s.depth = 1 THEN [s EXCEPT !.depth = 0, !.done = TRUE]
                ELSE IF s.depth = 2
                     THEN [s EXCEPT !.depth = 1,
                                    !.layers = Append(s.layers, <<>>)]
                     ELSE [s EXCEPT !.depth = s.depth - 1]
           [] tok.t = "layer" ->
                IF s.depth = 0 THEN [s EXCEPT !.done = TRUE]
                ELSE IF s.depth = 1
                     THEN [s EXCEPT !.layers = Append(s.layers, tok.digest)]
                     ELSE s

RECURSIVE ScanAll(_, _)
ScanAll(s, toks) ==
    IF toks = <<>> THEN s ELSE ScanAll(ScanStep(s, Head(toks)), Tail(toks))

\* sha256 is injective on the inputs of the model: a digest is named by the
\* bytes that were written to the accumulator
Sha256Sum(bytes) == [sha256of |-> bytes]

\* "sha256-" + base64.StdEncoding.EncodeToString(manifestHash.Sum(nil))
ManifestNixHash(bytes) == [prefix |-> Sha256Dash, base64of |-> Sha256Sum(bytes)]

----------------------------------------------------------------------------
(* The recipe text, line by line as run writes it to the strings.Builder.  *)

BlobSym(k) == [name |-> "blob", idx |-> k]
ManifestSym == [name |-> "manifestFile", idx |-> 0]

HeaderLines == <<[t |-> "header"], [t |-> "let"]>>

BlockOpenLines(k, url) ==
    <<[t |-> "fetchurl", sym |-> BlobSym(k)], [t |-> "curlOpts"],
      [t |-> "url", url |-> url]>>

BlockCloseLines(hash) == <<[t |-> "hash", hash |-> hash], [t |-> "blockEnd"]>>

ManifestBlockLines(url, hash) ==
    <<[t |-> "fetchurl", sym |-> ManifestSym], [t |-> "curlOpts"],
      [t |-> "url", url |-> url], [t |-> "hash", hash |-> hash],
      [t |-> "blockEnd"], [t |-> "in"], [t |-> "symlinkJoin"]>>

\* a plausible slip: the loop over the paths starts at 1, not 0
PathLinesFromOne(n) == [k \in 1..n |-> [t |-> "path", sym |-> BlobSym(k)]]

PathLines(n) == [k \in 1..n |-> [t |-> "path", sym |-> BlobSym(k - 1)]]

LnLines(n) == [k \in 1..n |-> [t |-> "ln", sym |-> BlobSym(k - 1)]]

TailLines(registry, m, v) ==
    <<[t |-> "mkdir", registry |-> registry, model |-> m],
      [t |-> "lnManifest", sym |-> ManifestSym, registry |-> registry,
       model |-> m, version |-> v],
      [t |-> "end"]>>

----------------------------------------------------------------------------
(* main and run.                                                           *)

\* a plausible slip: the model flag is not checked
ValidateRegistryOnly(registry, m) ==
    IF registry = <<>> THEN <<"registry is required">> ELSE Nil

ValidateFlags(registry, m) ==
    IF registry = <<>> THEN <<"registry is required">>
    ELSE IF m = <<>> THEN <<"model is required">>
    ELSE Nil

\* a plausible slip: the body is closed at the end of run, not deferred
ReturnCloseOnSuccess(e) ==
    /\ err' = e
    /\ pc' = "returned"
    /\ closeCount' = closeCount + (IF bodyOpen /\ e = Nil THEN 1 ELSE 0)
    /\ bodyOpen' = IF e = Nil THEN FALSE ELSE bodyOpen

\* a return statement of run: the deferred resp.Body.Close() runs if the
\* defer statement was reached
Return(e) ==
    /\ err' = e
    /\ pc' = "returned"
    /\ closeCount' = closeCount + (IF bodyOpen THEN 1 ELSE 0)
    /\ bodyOpen' = FALSE

\* a plausible slip: main forgets os.Exit(1)
ExitStatusAlwaysZero(e) == 0

ExitStatus(e) == IF e # Nil THEN 1 ELSE 0

FlagRegistries == {<<>>, DefaultRegistry}
FlagModels ==
    {<<>>, <<"m">>, <<"m", ":", "v">>, <<":", "v">>, <<"a", "/", "b">>,
     MistralNemo}

Init ==
    /\ flagRegistry \in FlagRegistries
    /\ flagModel \in FlagModels
    /\ pc = "start"
    /\ model = <<>>
    /\ version = <<>>
    /\ manifestURL = ManifestURL(<<>>, <<>>, <<>>)
    /\ netCalls = 0
    /\ body = <<>>
    /\ readPos = 0
    /\ bodyOpen = FALSE
    /\ closeCount = 0
    /\ hashed = <<>>
    /\ scan = ScanInit
    /\ manifest = <<>>
    /\ i = 0
    /\ sb = <<>>
    /\ hexHash = <<>>
    /\ nixHash = <<>>
    /\ convErr = Nil
    /\ stdout = <<>>
    /\ exitCode = -1
    /\ err = Nil

\* run, lines 94-113: validation, identifier parsing, the manifest URL
RunStart ==
    /\ pc = "start"
    /\ LET e == ValidateFlags(flagRegistry, flagModel)
           parsed == ParseModel(flagModel)
       IN IF e # Nil
          THEN /\ Return(e)
               /\ UNCHANGED <<model, version, manifestURL>>
          ELSE /\ model' = parsed.model
               /\ version' = parsed.version
               /\ manifestURL' =
                      ManifestURL(flagRegistry, parsed.model, parsed.version)
               /\ pc' = "get"
               /\ UNCHANGED <<err, closeCount, bodyOpen>>
    /\ UNCHANGED <<flagRegistry, flagModel, netCalls, body, readPos, hashed,
                   scan, manifest, i, sb, hexHash, nixHash, convErr, stdout,
                   exitCode>>

\* run, lines 115-121: http.Get fails, or answers with some body; the defer
\* is registered and the digest accumulator created
HttpGet ==
    /\ pc = "get"
    /\ netCalls' = netCalls + 1
    /\ \/ /\ Return(<<"failed to download manifest", "NetworkError">>)
          /\ UNCHANGED <<body, hashed, scan, readPos>>
       \/ \E b \in Bodies :
             /\ body' = b
             /\ bodyOpen' = TRUE
             /\ hashed' = <<>>
             /\ scan' = ScanInit
             /\ readPos' = 0
             /\ pc' = "decode"
             /\ UNCHANGED <<err, closeCount>>
    /\ UNCHANGED <<flagRegistry, flagModel, model, version, manifestURL,
                   manifest, i, sb, hexHash, nixHash, convErr, stdout,
                   exitCode>>

\* run, lines 123-131: one Read of the TeeReader by the decoder (n units, or
\* none at the end of the body), each byte read written to manifestHash,
\* then the scan of what was read; Decode returns at the end of the value,
\* at a syntax error or at the end of the body
DecodeRead ==
    /\ pc = "decode"
    /\ \E n \in 0..MaxRead :
          /\ IF readPos = Len(body) THEN n = 0
             ELSE n >= 1 /\ readPos + n <= Len(body)
          /\ LET chunk == SubSeq(body, readPos + 1, readPos + n)
                 s == ScanAll(scan, chunk)
             IN /\ readPos' = readPos + n
                /\ hashed' = hashed \o chunk
                /\ scan' = s
                /\ IF s.bad
                   THEN /\ Return(<<"failed to decode manifest", "SyntaxError">>)
                        /\ UNCHANGED <<manifest, sb, i>>
                   ELSE IF s.done
                   THEN /\ manifest' = s.layers
                        /\ sb' = HeaderLines
                        /\ i' = 0
                        /\ pc' = "layers"
                        /\ UNCHANGED <<err, closeCount, bodyOpen>>
                   ELSE IF n = 0
                   THEN /\ Return(<<"failed to decode manifest",
                                    IF s.depth = 0 THEN "EOF"
                                    ELSE "ErrUnexpectedEOF">>)
                        /\ UNCHANGED <<manifest, sb, i>>
                   ELSE UNCHANGED <<manifest, sb, i, pc, err, closeCount,
                                    bodyOpen>>
    /\ UNCHANGED <<flagRegistry, flagModel, model, version, manifestURL,
                   netCalls, body, hexHash, nixHash, convErr, stdout,
                   exitCode>>

\* run, lines 132-147: one iteration of the loop over manifest.Layers
EmitLayer ==
    /\ pc = "layers"
    /\ i < Len(manifest)
    /\ LET digest == manifest[i + 1]
           blobURL == BlobURL(flagRegistry, model, digest)
           conv == convertOllamaHashToNixHash(digest)
       IN /\ hexHash' = digest
          /\ nixHash' = conv.nixHash
          /\ convErr' = conv.err
          /\ IF conv.err # Nil
             THEN /\ sb' = sb \o BlockOpenLines(i, blobURL)
                  /\ Return(<<"failed to convert blob hash">> \o conv.err)
                  /\ UNCHANGED i
             ELSE /\ sb' = sb \o BlockOpenLines(i, blobURL)
                              \o BlockCloseLines(conv.nixHash)
                  /\ i' = i + 1
                  /\ UNCHANGED <<pc, err, closeCount, bodyOpen>>
    /\ UNCHANGED <<flagRegistry, flagModel, model, version, manifestURL,
                   netCalls, body, readPos, hashed, scan, manifest, stdout,
                   exitCode>>

\* run, lines 148-184: the manifest block, the symlinkJoin block, Println of
\* the builder and return nil
EmitRest ==
    /\ pc = "layers"
    /\ i = Len(manifest)
    /\ LET text == sb \o ManifestBlockLines(manifestURL, ManifestNixHash(hashed))
                      \o PathLines(Len(manifest))
                      \o <<[t |-> "path", sym |-> ManifestSym],
                           [t |-> "postBuild"]>>
                      \o LnLines(Len(manifest))
                      \o TailLines(flagRegistry, model, version)
       IN /\ sb' = text
          /\ stdout' = Append(stdout, [kind |-> "recipe", text |-> text])
    /\ Return(Nil)
    /\ UNCHANGED <<flagRegistry, flagModel, model, version, manifestURL,
                   netCalls, body, readPos, hashed, scan, manifest, i,
                   hexHash, nixHash, convErr, exitCode>>

\* main, lines 88-91: print the error and exit 1, or fall off main (exit 0)
MainExit ==
    /\ pc = "returned"
    /\ stdout' = IF err # Nil
                 THEN Append(stdout, [kind |-> "error", text |-> err])
                 ELSE stdout
    /\ exitCode' = ExitStatus(err)
    /\ pc' = "exited"
    /\ UNCHANGED <<flagRegistry, flagModel, model, version, manifestURL,
                   netCalls, body, readPos, bodyOpen, closeCount, hashed,
                   scan, manifest, i, sb, hexHash, nixHash, convErr, err>>

Next == RunStart \/ HttpGet \/ DecodeRead \/ EmitLayer \/ EmitRest \/ MainExit

Spec == Init /\ [][Next]_vars

----------------------------------------------------------------------------
(* The identifier parsing of run (lines 102-107) on every short string.    *)

IdChars == {"a", "b", "c", ":"}

InitParse ==
    /\ flagModel \in SeqsUpTo(IdChars, MaxIdLen)
    /\ flagRegistry = DefaultRegistry
    /\ pc = "parse"
    /\ model = <<>>
    /\ version = <<>>
    /\ manifestURL = ManifestURL(<<>>, <<>>, <<>>)
    /\ netCalls = 0
    /\ body = <<>>
    /\ readPos = 0
    /\ bodyOpen = FALSE
    /\ closeCount = 0
    /\ hashed = <<>>
    /\ scan = ScanInit
    /\ manifest = <<>>
    /\ i = 0
    /\ sb = <<>>
    /\ hexHash = <<>>
    /\ nixHash = <<>>
    /\ convErr = Nil
    /\ stdout = <<>>
    /\ exitCode = -1
    /\ err = Nil

ParseIdentifier ==
    /\ pc = "parse"
    /\ model' = ParseModel(flagModel).model
    /\ version' = ParseModel(flagModel).version
    /\ pc' = "parsed"
    /\ UNCHANGED <<flagRegistry, flagModel, manifestURL, netCalls, body,
                   readPos, bodyOpen, closeCount, hashed, scan, manifest, i,
                   sb, hexHash, nixHash, convErr, stdout, exitCode, err>>

SpecParse == InitParse /\ [][ParseIdentifier]_vars

----------------------------------------------------------------------------
(* convertOllamaHashToNixHash on digests of several lengths, with and      *)
(* without the prefix, built by repeating a short pattern of characters.   *)

HashChars == {LowerHex[k] : k \in 1..16} \cup {"A", "g"}
HashLens == {0, 1, 4, DigestHexLen - 1, DigestHexLen, DigestHexLen + 2}

Repeat(pat, n) == [k \in 1..n |-> pat[((k - 1) % Len(pat)) + 1]]

HashInputs ==
    {pre \o Repeat(pat, n) :
        pre \in {<<>>, Sha256Colon}, pat \in [1..PatLen -> HashChars],
        n \in HashLens}

InitHash ==
    /\ hexHash \in HashInputs
    /\ flagRegistry = DefaultRegistry
    /\ flagModel = <<>>
    /\ pc = "convert"
    /\ model = <<>>
    /\ version = <<>>
    /\ manifestURL = ManifestURL(<<>>, <<>>, <<>>)
    /\ netCalls = 0
    /\ body = <<>>
    /\ readPos = 0
    /\ bodyOpen = FALSE
    /\ closeCount = 0
    /\ hashed = <<>>
    /\ scan = ScanInit
    /\ manifest = <<>>
    /\ i = 0
    /\ sb = <<>>
    /\ nixHash = <<>>
    /\ convErr = Nil
    /\ stdout = <<>>
    /\ exitCode = -1
    /\ err = Nil

ConvertHash ==
    /\ pc = "convert"
    /\ nixHash' = convertOllamaHashToNixHash(hexHash).nixHash
    /\ convErr' = convertOllamaHashToNixHash(hexHash).err
    /\ pc' = "converted"
    /\ UNCHANGED <<flagRegistry, flagModel, model, version, manifestURL,
                   netCalls, body, readPos, bodyOpen, closeCount, hashed,
                   scan, manifest, i, sb, hexHash, stdout, exitCode, err>>

SpecHash == InitHash /\ [][ConvertHash]_vars

----------------------------------------------------------------------------
(* Vocabulary of the properties.                                           *)

Returned == pc \in {"returned", "exited"}

ConfigErrors == {<<"registry is required">>, <<"model is required">>}

HasColon(s) == \E k \in 1..Len(s) : s[k] = ":"

\* the lines of a text of one kind, in order
LinesOf(text, kind) == SelectSeq(text, LAMBDA l : l.t = kind)

SymsOf(text, kind) ==
    LET ls == LinesOf(text, kind) IN [k \in 1..Len(ls) |-> ls[k].sym]

IsBlobLine(l) == l.t = "fetchurl" /\ l.sym.name = "blob"
IsManifestLine(l) == l.t = "fetchurl" /\ l.sym = ManifestSym

BlobSyms(n) == [k \in 1..n |-> BlobSym(k - 1)]

\* the recipes among what was printed
RecipesPrinted ==
    {k \in 1..Len(stdout) : stdout[k].kind = "recipe"}

\* header, n layer blocks, the manifest block and the aggregation block
IsCompleteRecipe(text, n) ==
    /\ Len(text) > 0
    /\ text[1].t = "header"
    /\ text[Len(text)].t = "end"
    /\ Len(SelectSeq(text, IsBlobLine)) = n
    /\ Len(SelectSeq(text, IsManifestLine)) = 1
    /\ Len(LinesOf(text, "url")) = n + 1
    /\ Len(LinesOf(text, "hash")) = n + 1
    /\ Len(LinesOf(text, "blockEnd")) = n + 1
    /\ Len(LinesOf(text, "symlinkJoin")) = 1
    /\ Len(LinesOf(text, "path")) = n + 1
    /\ Len(LinesOf(text, "ln")) = n
    /\ Len(LinesOf(text, "lnManifest")) = 1

\* the digest without a leading "sha256:", stated on the characters
DigestCore(h) ==
    IF Len(h) >= 7 /\ [k \in 1..7 |-> h[k]] = Sha256Colon
    THEN [k \in 1..(Len(h) - 7) |-> h[k + 7]]
    ELSE h

IsLowerHex64(s) ==
    /\ Len(s) = DigestHexLen
    /\ \A k \in 1..Len(s) : \E d \in 1..16 : LowerHex[d] = s[k]

IsHex64(s) ==
    /\ Len(s) = DigestHexLen
    /\ \A k \in 1..Len(s) :
          \/ \E d \in 1..16 : LowerHex[d] = s[k]
          \/ \E d \in 1..6 : UpperHex[d] = s[k]

\* base64 decoding and hex encoding, the inverse directions of the
\* round-trip law
Base64Value(c) ==
    IF c = "=" THEN 0 ELSE (CHOOSE k \in 1..64 : StdAlphabet[k] = c) - 1

Pow256(e) == CASE e = 0 -> 1 [] e = 1 -> 256 [] e = 2 -> 65536

Base64Decode(cs) ==
    LET n == Len(cs)
        pad == Cardinality({k \in 1..n : cs[k] = "="})
        byte(k) ==
            LET g == (k - 1) \div 3
                q == (k - 1) % 3
                v == 262144 * Base64Value(cs[4 * g + 1])
                         + 4096 * Base64Value(cs[4 * g + 2])
                         + 64 * Base64Value(cs[4 * g + 3])
                         + Base64Value(cs[4 * g + 4])
            IN (v \div Pow256(2 - q)) % 256
    IN [k \in 1..(3 * (n \div 4) - pad) |-> byte(k)]

HexEncode(bs) ==
    [k \in 1..(2 * Len(bs)) |->
        IF k % 2 = 1 THEN LowerHex[(bs[(k + 1) \div 2] \div 16) + 1]
        ELSE LowerHex[(bs[k \div 2] % 16) + 1]]

IsStdPaddedBase64(cs) ==
    /\ Len(cs) % 4 = 0
    /\ \A k \in 1..Len(cs) :
          \/ \E a \in 1..64 : StdAlphabet[a] = cs[k]
          \/ /\ cs[k] = "="
             /\ k > Len(cs) - 2
             /\ \A j \in k..Len(cs) : cs[j] = "="

----------------------------------------------------------------------------
(* C1: every blob URL written into a layer's fetch block is                *)
(* https://<registryHost>/v2/library/<requested model name>/blobs/<digest>:*)
(* its model segment is the name parsed from the -model flag of the run.   *)
C1_BlobURLNamesRequestedModel ==
    \A k \in 1..Len(sb) :
        IsBlobLine(sb[k]) =>
            /\ sb[k + 2].url.Scheme = "https"
            /\ sb[k + 2].url.Host = flagRegistry
            /\ sb[k + 2].url.Path[3] = ParseModel(flagModel).model
            /\ sb[k + 2].url.Path[4] = "blobs"

(* C2: with an empty -model flag run fails with a configuration error, the *)
(* process exits non-zero, and no network request is ever issued.          *)
C2_MissingModelFailsBeforeNetwork ==
    flagModel = <<>> =>
        /\ netCalls = 0
        /\ pc \in {"start", "returned", "exited"}
        /\ Returned => err \in ConfigErrors
        /\ pc = "exited" => exitCode = 1

C2_Witness ==
    /\ flagModel = <<>>
    /\ flagRegistry # <<>>
    /\ pc = "exited"
    /\ err = <<"model is required">>
    /\ netCalls = 0

(* C3: a run ends either with the complete recipe printed once and exit    *)
(* status 0, or with no recipe text printed and a non-zero exit status;    *)
(* nothing of the recipe is printed before run succeeds.                   *)
C3_AllOrNothing ==
    /\ \A k \in RecipesPrinted :
          /\ Returned /\ err = Nil
          /\ Len(stdout) = 1
          /\ IsCompleteRecipe(stdout[k].text, Len(manifest))
    /\ pc = "exited" =>
          \/ exitCode = 0 /\ RecipesPrinted = {1}
          \/ exitCode > 0 /\ RecipesPrinted = {}

C3_Witness ==
    /\ pc = "exited"
    /\ exitCode = 1
    /\ err = <<"failed to convert blob hash", "InvalidByteError">>
    /\ i >= 1
    /\ Len(LinesOf(sb, "blockEnd")) = i
    /\ RecipesPrinted = {}

(* C4: for a manifest of N layers whose digests all transcode, the recipe  *)
(* defines exactly blob_0 .. blob_{N-1} and manifestFile, blob_i carrying  *)
(* the digest and the transcoded hash of layer i; the input list names     *)
(* exactly these N+1 symbols and the script links exactly the N blobs.     *)
C4_SymbolsMatchLayers ==
    \A r \in RecipesPrinted :
        LET text == stdout[r].text
            n == Len(manifest)
        IN /\ SymsOf(text, "fetchurl") = BlobSyms(n) \o <<ManifestSym>>
           /\ SymsOf(text, "path") = BlobSyms(n) \o <<ManifestSym>>
           /\ SymsOf(text, "ln") = BlobSyms(n)
           /\ \A k \in 1..Len(text) :
                 IsBlobLine(text[k]) =>
                     LET layer == manifest[text[k].sym.idx + 1]
                     IN /\ text[k + 2].t = "url"
                        /\ text[k + 2].url.Path[5] = PathEscape(layer)
                        /\ text[k + 3].t = "hash"
                        /\ text[k + 3].hash =
                               convertOllamaHashToNixHash(layer).nixHash
                        /\ convertOllamaHashToNixHash(layer).err = Nil

C4_Witness ==
    /\ pc = "exited"
    /\ exitCode = 0
    /\ Len(manifest) = 2
    /\ manifest[1] # manifest[2]
    /\ RecipesPrinted = {1}

(* C5: the manifest hash of the recipe is the SHA-256 of the whole         *)
(* response body the registry served, however the body is delivered in     *)
(* reads and whatever follows the JSON value.                              *)
C5_ManifestHashCoversBody ==
    \A r \in RecipesPrinted :
        \A k \in 1..Len(stdout[r].text) :
            IsManifestLine(stdout[r].text[k]) =>
                stdout[r].text[k + 3].hash = ManifestNixHash(body)

(* C6: identifier parsing splits at the first colon only: without a colon  *)
(* name = s and version = "latest"; with one, name holds no colon and      *)
(* name + ":" + version is s again.                                        *)
C6_SplitAtFirstColon ==
    pc = "parsed" =>
        /\ ~HasColon(flagModel) => model = flagModel /\ version = Latest
        /\ HasColon(flagModel) =>
              /\ ~HasColon(model)
              /\ model \o <<":">> \o version = flagModel

C6_Witness ==
    /\ pc = "parsed"
    /\ flagModel = <<"a", ":", "b", ":", "c">>
    /\ model = <<"a">>
    /\ version = <<"b", ":", "c">>

(* C7: for a 64-character lowercase hex digest h, with or without the      *)
(* prefix "sha256:", the result is "sha256-" and standard padded base64    *)
(* that decodes and hex-encodes back to h, and is the result for h alone.  *)
C7_HashRoundTrip ==
    (pc = "converted" /\ IsLowerHex64(DigestCore(hexHash))) =>
        /\ convErr = Nil
        /\ Len(nixHash) > 7
        /\ [k \in 1..7 |-> nixHash[k]] = Sha256Dash
        /\ LET payload == [k \in 1..(Len(nixHash) - 7) |-> nixHash[k + 7]]
           IN /\ IsStdPaddedBase64(payload)
              /\ HexEncode(Base64Decode(payload)) = DigestCore(hexHash)
        /\ nixHash = convertOllamaHashToNixHash(DigestCore(hexHash)).nixHash

C7_Witness ==
    /\ pc = "converted"
    /\ Len(hexHash) = DigestHexLen + 7
    /\ IsLowerHex64(DigestCore(hexHash))
    /\ hexHash[8] # hexHash[9]
    /\ convErr = Nil
    /\ Len(nixHash) = 51

(* C8: whenever the manifest GET is issued the registry host and the model *)
(* name (the -model value before its first colon) are both non-empty.      *)
C8_GetOnlyWithModelName ==
    netCalls > 0 => flagRegistry # <<>> /\ model # <<>>

(* C9: a run that succeeds had only layer digests that are, after the      *)
(* prefix, 64 hexadecimal characters; any other digest fails the run with  *)
(* a hash-conversion error.                                                *)
C9_SuccessImpliesHex64 ==
    (pc = "exited" /\ exitCode = 0) =>
        \A k \in 1..Len(manifest) : IsHex64(DigestCore(manifest[k]))

(* C10: once the GET has returned a response its body is closed exactly    *)
(* once before run returns, on the decode-failure, conversion-failure and  *)
(* success paths; when validation or the GET fails nothing is closed.      *)
C10_BodyClosedOnce ==
    /\ closeCount <= 1
    /\ bodyOpen => closeCount = 0 /\ ~Returned
    /\ Returned =>
          /\ ~bodyOpen
          /\ IF err \in ConfigErrors
                \/ (err # Nil /\ err[1] = "failed to download manifest")
             THEN closeCount = 0
             ELSE closeCount = 1

C10_Witness ==
    /\ pc = "returned"
    /\ err # Nil
    /\ err[1] = "failed to decode manifest"
    /\ closeCount = 1
    /\ ~bodyOpen

====
